---------------------------- MODULE Spec2Model ----------------------------
(***************************************************************************)
(* Model of the invoice upload pipeline of src/src/server.js               *)
(* (POST /api/upload-invoice) and of the storage call it ends in           *)
(* (src/src/db.js insertInvoice).                                          *)
(*                                                                         *)
(* JavaScript strings are sequences of one-character strings, so that      *)
(* split, join, trim, toLowerCase, includes and parseFloat are computed    *)
(* character by character as the code computes them.                       *)
(***************************************************************************)
EXTENDS Integers, Sequences, FiniteSets, TLC

VARIABLES
    pc,              \* position of the upload handler
    today,           \* new Date() read by the handler (UTC calendar day)
    file,            \* req.file as multer delivers it
    fallbackInvoice, \* server.js:188-199
    rawText,         \* server.js:201
    textSource,      \* which branch of lines 211-236 produced rawText
    simpleResult,    \* server.js:270
    aiResult,        \* server.js:272-278
    aiThrew,         \* whether extractInvoiceFromText rejected
    mergedInvoice,   \* server.js:280-308
    insertArg,       \* whether insertInvoice was called, and the record passed
    insertOutcome,   \* "none", "ok" (resolved) or "failed" (rejected)
    lastID,          \* sqlite's last assigned invoice id
    response,        \* what res.status(..).json(..) sent
    exText,          \* input of the heuristic extractor checked on its own
    exDone,          \* whether simpleExtract has been applied to exText
    exResult         \* its result

vars == <<pc, today, file, fallbackInvoice, rawText, textSource, simpleResult,
          aiResult, aiThrew, mergedInvoice, insertArg, insertOutcome, lastID,
          response, exText, exDone, exResult>>

pipelineVars == <<pc, today, file, fallbackInvoice, rawText, textSource,
                  simpleResult, aiResult, aiThrew, mergedInvoice, insertArg,
                  insertOutcome, lastID, response>>

extractVars == <<exText, exDone, exResult>>

(***************************************************************************)
(* JavaScript values.  Every value has the same record shape.              *)
(*   t : typeof-like tag  "undefined" | "null" | "string" | "number"       *)
(*   s : the characters of a string                                        *)
(*   k : for a number "finite" | "NaN" | "+Infinity" | "-Infinity"         *)
(*   neg, ip, fr : sign, integer part and fraction digits (no trailing     *)
(*                 zero) of a finite number                                *)
(***************************************************************************)
Undefined == [t |-> "undefined", s |-> <<>>, k |-> "", neg |-> FALSE, ip |-> 0, fr |-> <<>>]

Str(chars) == [t |-> "string", s |-> chars, k |-> "", neg |-> FALSE, ip |-> 0, fr |-> <<>>]

Fin(neg, ip, fr) == [t |-> "number", s |-> <<>>, k |-> "finite", neg |-> neg, ip |-> ip, fr |-> fr]

Num(n) == IF n < 0 THEN Fin(TRUE, -n, <<>>) ELSE Fin(FALSE, n, <<>>)

NaN == [t |-> "number", s |-> <<>>, k |-> "NaN", neg |-> FALSE, ip |-> 0, fr |-> <<>>]

PosInfinity == [t |-> "number", s |-> <<>>, k |-> "+Infinity", neg |-> FALSE, ip |-> 0, fr |-> <<>>]

NegInfinity == [t |-> "number", s |-> <<>>, k |-> "-Infinity", neg |-> TRUE, ip |-> 0, fr |-> <<>>]

IsZero(v) == v.t = "number" /\ v.k = "finite" /\ v.ip = 0 /\ v.fr = <<>>

\* ToBoolean: undefined, null, "", 0 and NaN are falsy.
Truthy(v) ==
    CASE v.t = "undefined" -> FALSE
      [] v.t = "null" -> FALSE
      [] v.t = "string" -> v.s # <<>>
      [] v.t = "number" -> v.k # "NaN" /\ ~IsZero(v)

\* a || b
JsOr(a, b) == IF Truthy(a) THEN a ELSE b

(***************************************************************************)
(* String primitives.                                                      *)
(***************************************************************************)
Upper == <<"A","B","C","D","E","F","G","H","I","J","K","L","M",
           "N","O","P","Q","R","S","T","U","V","W","X","Y","Z">>

Lower == <<"a","b","c","d","e","f","g","h","i","j","k","l","m",
           "n","o","p","q","r","s","t","u","v","w","x","y","z">>

Digits == <<"0","1","2","3","4","5","6","7","8","9">>

DigitSet == {Digits[i] : i \in 1..Len(Digits)}

DigitVal(c) == (CHOOSE i \in 1..Len(Digits) : Digits[i] = c) - 1

DigitChar(n) == Digits[n + 1]

\* The white space String.prototype.trim removes, among the characters used.
WhiteSpace == {" ", "\t", "\r", "\n"}

toLowerChar(c) ==
    IF \E i \in 1..Len(Upper) : Upper[i] = c
    THEN Lower[CHOOSE i \in 1..Len(Upper) : Upper[i] = c]
    ELSE c

toLowerCase(str) == [i \in 1..Len(str) |-> toLowerChar(str[i])]

startsWith(str, prefix) ==
    Len(prefix) <= Len(str) /\ SubSeq(str, 1, Len(prefix)) = prefix

includes(str, needle) ==
    \E i \in 1..(Len(str) - Len(needle) + 1) :
        SubSeq(str, i, i + Len(needle) - 1) = needle

\* String.prototype.trim
trim(str) ==
    LET kept == {i \in 1..Len(str) : str[i] \notin WhiteSpace}
    IN  IF kept = {} THEN <<>>
        ELSE SubSeq(str, CHOOSE i \in kept : \A j \in kept : i <= j,
                         CHOOSE i \in kept : \A j \in kept : j <= i)

\* The k-th smallest element of a set of indices.
nth(P, k) == CHOOSE i \in P : Cardinality({j \in P : j < i}) = k - 1

\* str.split(/[<seps>]/): the pieces between single separator characters.
split(str, seps) ==
    LET P     == {i \in 1..Len(str) : str[i] \in seps}
        n     == Cardinality(P)
        at(k) == IF k = 0 THEN 0 ELSE IF k = n + 1 THEN Len(str) + 1 ELSE nth(P, k)
    IN  [k \in 1..(n + 1) |-> SubSeq(str, at(k - 1) + 1, at(k) - 1)]

\* parts.join(sep)
RECURSIVE join(_, _)
join(parts, sep) ==
    IF parts = <<>> THEN <<>>
    ELSE IF Len(parts) = 1 THEN parts[1]
    ELSE parts[1] \o sep \o join(Tail(parts), sep)

\* text.split(/\r?\n/): the pieces between line breaks, a "\r" right before
\* a "\n" being part of the break.
splitLines(text) ==
    LET P      == {i \in 1..Len(text) : text[i] = "\n"}
        n      == Cardinality(P)
        at(k)  == IF k = 0 THEN 0 ELSE IF k = n + 1 THEN Len(text) + 1 ELSE nth(P, k)
        end(k) == IF k <= n /\ at(k) - 1 > at(k - 1) /\ text[at(k) - 1] = "\r"
                  THEN at(k) - 2
                  ELSE at(k) - 1
    IN  [k \in 1..(n + 1) |-> SubSeq(text, at(k - 1) + 1, end(k))]

isNumericChar(c) == c \in DigitSet \cup {".", "-"}

\* value.replace(/[^0-9.\-]+/g, "")
stripNonNumeric(str) == SelectSeq(str, isNumericChar)

\* The longest prefix of decimal digits.
digitPrefix(str) ==
    LET n == CHOOSE k \in 0..Len(str) :
                /\ \A i \in 1..k : str[i] \in DigitSet
                /\ k = Len(str) \/ str[k + 1] \notin DigitSet
    IN  SubSeq(str, 1, n)

RECURSIVE intValue(_)
intValue(ds) ==
    IF ds = <<>> THEN 0
    ELSE 10 * intValue(SubSeq(ds, 1, Len(ds) - 1)) + DigitVal(ds[Len(ds)])

RECURSIVE dropTrailingZeros(_)
dropTrailingZeros(ds) ==
    IF ds # <<>> /\ ds[Len(ds)] = "0"
    THEN dropTrailingZeros(SubSeq(ds, 1, Len(ds) - 1))
    ELSE ds

\* parseFloat on a string without white space or exponent: an optional sign,
\* digits, an optional "." and digits; the longest such prefix; NaN when it
\* holds no digit.
parseFloat(str) ==
    LET neg  == str # <<>> /\ Head(str) = "-"
        body == IF str # <<>> /\ Head(str) \in {"-", "+"} THEN Tail(str) ELSE str
        ip   == digitPrefix(body)
        rest == SubSeq(body, Len(ip) + 1, Len(body))
        fr   == IF rest # <<>> /\ Head(rest) = "." THEN digitPrefix(Tail(rest)) ELSE <<>>
        f    == dropTrailingZeros(fr)
        n    == intValue(ip)
    IN  IF ip = <<>> /\ fr = <<>> THEN NaN
        ELSE Fin(neg /\ ~(n = 0 /\ f = <<>>), n, f)

(***************************************************************************)
(* Calendar dates (UTC) and Date.prototype.toISOString().slice(0, 10).     *)
(***************************************************************************)
IsLeap(y) == (y % 4 = 0 /\ y % 100 # 0) \/ y % 400 = 0

DaysInMonth(y, m) ==
    IF m = 2 THEN (IF IsLeap(y) THEN 29 ELSE 28)
    ELSE IF m \in {4, 6, 9, 11} THEN 30 ELSE 31

NextDay(d) ==
    IF d.d < DaysInMonth(d.y, d.m) THEN [d EXCEPT !.d = @ + 1]
    ELSE IF d.m < 12 THEN [y |-> d.y, m |-> d.m + 1, d |-> 1]
    ELSE [y |-> d.y + 1, m |-> 1, d |-> 1]

RECURSIVE AddDays(_, _)
AddDays(d, n) == IF n = 0 THEN d ELSE AddDays(NextDay(d), n - 1)

pad2(n) == <<DigitChar(n \div 10), DigitChar(n % 10)>>

pad4(n) == <<DigitChar(n \div 1000), DigitChar((n \div 100) % 10),
             DigitChar((n \div 10) % 10), DigitChar(n % 10)>>

\* const toISO = (d) => d.toISOString().slice(0, 10)
toISO(d) == pad4(d.y) \o <<"-">> \o pad2(d.m) \o <<"-">> \o pad2(d.d)


(***************************************************************************)
(* The heuristic extractor, server.js:240-268.                             *)
(***************************************************************************)
L_supplier == <<"s","u","p","p","l","i","e","r">>

L_invoice_number == <<"i","n","v","o","i","c","e"," ","n","u","m","b","e","r">>

L_invoice_no == <<"i","n","v","o","i","c","e"," ","n","o">>

L_inv == <<"i","n","v">>

L_issue_date == <<"i","s","s","u","e"," ","d","a","t","e">>

L_due_date == <<"d","u","e"," ","d","a","t","e">>

L_amount == <<"a","m","o","u","n","t">>

L_total == <<"t","o","t","a","l">>

L_balance == <<"b","a","l","a","n","c","e">>

\* The characters of /[:\-]/
Separators == {":", "-"}

\* lines.find((l) => l.toLowerCase().includes(label)): the index of the first
\* such line, 0 when there is none.
findLine(lines, label) ==
    IF \E i \in 1..Len(lines) : includes(toLowerCase(lines[i]), label)
    THEN CHOOSE i \in 1..Len(lines) :
            /\ includes(toLowerCase(lines[i]), label)
            /\ \A j \in 1..(i - 1) : ~includes(toLowerCase(lines[j]), label)
    ELSE 0

\* const parts = line.split(/[:\-]/);
\* return parts.length > 1 ? parts.slice(1).join(":").trim() : undefined;
valueOfLine(line) ==
    LET parts == split(line, Separators)
    IN  IF Len(parts) > 1 THEN Str(trim(join(Tail(parts), <<":">>))) ELSE Undefined

findValue(lines, label) ==
    LET i == findLine(lines, label)
    IN  IF i = 0 THEN Undefined ELSE valueOfLine(lines[i])

AllDigits(str) == str # <<>> /\ \A i \in 1..Len(str) : str[i] \in DigitSet

\* new Date(value) for the month/day/year form "M/D/YYYY" (local time, taken
\* as UTC): the date when month and day exist in the calendar.  Every other
\* string the model feeds it ("2024:12:25", the result of valueOfLine on an
\* ISO date) is an Invalid Date.
dateOf(str) ==
    LET parts == split(str, {"/"})
    IN  IF /\ Len(parts) = 3
           /\ \A i \in 1..3 : AllDigits(parts[i])
           /\ Len(parts[1]) <= 2 /\ Len(parts[2]) <= 2 /\ Len(parts[3]) = 4
           /\ intValue(parts[1]) \in 1..12
           /\ intValue(parts[2]) \in 1..DaysInMonth(intValue(parts[3]), intValue(parts[1]))
        THEN [valid |-> TRUE, y |-> intValue(parts[3]), m |-> intValue(parts[1]),
              d |-> intValue(parts[2])]
        ELSE [valid |-> FALSE, y |-> 0, m |-> 0, d |-> 0]

\* const parseDate = (value) => { ... }
parseDate(value) ==
    IF ~Truthy(value) THEN Undefined
    ELSE LET parsed == dateOf(value.s)
         IN  IF ~parsed.valid THEN Undefined ELSE Str(toISO(parsed))

\* const parseAmount = (value) => { ... }
parseAmount(value) ==
    IF ~Truthy(value) THEN Undefined
    ELSE LET num == parseFloat(stripNonNumeric(value.s))
         IN  IF num.k = "NaN" THEN Undefined ELSE num

invoiceNumberOf_firstSynonymOnly(lines) == findValue(lines, L_invoice_number)

\* findValue("invoice number") || findValue("invoice no") || findValue("inv")
invoiceNumberOf(lines) ==
    JsOr(JsOr(findValue(lines, L_invoice_number), findValue(lines, L_invoice_no)),
         findValue(lines, L_inv))

\* findValue("amount") || findValue("total") || findValue("balance")
amountTextOf(lines) ==
    JsOr(JsOr(findValue(lines, L_amount), findValue(lines, L_total)),
         findValue(lines, L_balance))

\* What simpleExtract returns for "": the object {} (every field undefined).
EmptyResult ==
    [supplier |-> Undefined, invoice_number |-> Undefined, issue_date |-> Undefined,
     due_date |-> Undefined, amount |-> Undefined]

\* const simpleExtract = (text) => { ... }
simpleExtract(text) ==
    IF text = <<>> THEN EmptyResult
    ELSE LET lines == splitLines(text)
         IN  [supplier       |-> findValue(lines, L_supplier),
              invoice_number |-> invoiceNumberOf(lines),
              issue_date     |-> parseDate(findValue(lines, L_issue_date)),
              due_date       |-> parseDate(findValue(lines, L_due_date)),
              amount         |-> parseAmount(amountTextOf(lines))]

(***************************************************************************)
(* Inputs of the heuristic extractor checked on its own: texts of at most  *)
(* MaxLines lines, joined by "\n" or by "\r\n".                            *)
(***************************************************************************)
MaxLines == 2

ExLines ==
    { \* Invoice Number: INV-001
      <<"I","n","v","o","i","c","e"," ","N","u","m","b","e","r",":"," ","I","N","V","-","0","0","1">>,
      \* Invoice Number 7
      <<"I","n","v","o","i","c","e"," ","N","u","m","b","e","r"," ","7">>,
      \* Invoice No: 9
      <<"I","n","v","o","i","c","e"," ","N","o",":"," ","9">>,
      \* Inv - 3
      <<"I","n","v"," ","-"," ","3">>,
      \* INVOICE NUMBER:
      <<"I","N","V","O","I","C","E"," ","N","U","M","B","E","R",":">>,
      \* Amount: $1,234.56
      <<"A","m","o","u","n","t",":"," ","$","1",",","2","3","4",".","5","6">>,
      \* Amount: TBC
      <<"A","m","o","u","n","t",":"," ","T","B","C">>,
      \* Amount due
      <<"A","m","o","u","n","t"," ","d","u","e">>,
      \* Total: 12
      <<"T","o","t","a","l",":"," ","1","2">>,
      \* Balance - 40.50
      <<"B","a","l","a","n","c","e"," ","-"," ","4","0",".","5","0">>,
      \* Due Date: 2024-12-25
      <<"D","u","e"," ","D","a","t","e",":"," ","2","0","2","4","-","1","2","-","2","5">>,
      \* Due Date: 12/25/2024
      <<"D","u","e"," ","D","a","t","e",":"," ","1","2","/","2","5","/","2","0","2","4">>,
      \* Issue Date: 2/29/2024
      <<"I","s","s","u","e"," ","D","a","t","e",":"," ","2","/","2","9","/","2","0","2","4">>,
      \* Supplier: Smith-Jones Ltd
      <<"S","u","p","p","l","i","e","r",":"," ","S","m","i","t","h","-","J","o","n","e","s"," ","L","t","d">> }

Newlines == {<<"\n">>, <<"\r","\n">>}

SeqsUpTo(S, n) == UNION {[1..k -> S] : k \in 0..n}

ExTexts == {join(ls, nl) : ls \in SeqsUpTo(ExLines, MaxLines), nl \in Newlines}


(***************************************************************************)
(* The upload handler, server.js:169-331.                                  *)
(***************************************************************************)
NoDate == [y |-> 0, m |-> 0, d |-> 0]

NoFile == [present |-> FALSE, mimetype |-> <<>>, originalname |-> <<>>]

NoInvoice ==
    [supplier |-> Undefined, invoice_number |-> Undefined, issue_date |-> Undefined,
     due_date |-> Undefined, amount |-> Undefined, status |-> Undefined,
     category |-> Undefined, source |-> Undefined, week_label |-> Undefined,
     archived |-> Undefined]

NoRow == [id |-> 0, invoice |-> NoInvoice]

NoResponse == [status |-> 0, body |-> "none", invoice |-> NoRow]

\* aiResult = null
AiNull ==
    [isNull |-> TRUE, supplier |-> Undefined, invoice_number |-> Undefined,
     issue_date |-> Undefined, due_date |-> Undefined, amount |-> Undefined,
     status |-> Undefined, category |-> Undefined]

\* const weekLabelFromDate = (date) => `Week of ${date}`
weekLabelFromDate(date) == <<"W","e","e","k"," ","o","f"," ">> \o date

\* const fallbackInvoice = { ... }, with due = today + 14 days
fallbackInvoiceOf(f, t) ==
    LET due == AddDays(t, 14)
    IN  [supplier       |-> Str(<<"U","p","l","o","a","d","e","d"," ","i","n","v","o","i","c","e">>),
         invoice_number |-> Str(f.originalname),
         issue_date     |-> Str(toISO(t)),
         due_date       |-> Str(toISO(due)),
         amount         |-> Num(0),
         status         |-> Str(<<"U","p","c","o","m","i","n","g">>),
         category       |-> Str(<<"U","n","c","a","t","e","g","o","r","i","s","e","d">>),
         source         |-> Str(<<"U","p","l","o","a","d">>),
         week_label     |-> Str(weekLabelFromDate(toISO(due))),
         archived       |-> Num(0)]

\* path.extname for a name without directory separators: from the last "."
\* to the end, "" when there is no "." or the only one starts the name.
extname(name) ==
    LET dots == {i \in 1..Len(name) : name[i] = "."}
        last == IF dots = {} THEN 0 ELSE CHOOSE i \in dots : \A j \in dots : j <= i
    IN  IF last <= 1 THEN <<>> ELSE SubSeq(name, last, Len(name))

\* const shouldTreatAsText = mimetype.startsWith("text/") || ... (204-209)
shouldTreatAsText(mimetype, ext) ==
    \/ startsWith(mimetype, <<"t","e","x","t","/">>)
    \/ mimetype = <<"a","p","p","l","i","c","a","t","i","o","n","/","o","c","t","e","t","-","s","t","r","e","a","m">>
    \/ ext = <<".","t","x","t">>
    \/ ext = <<".","c","s","v">>
    \/ ext = <<".","j","s","o","n">>

mimetypeOf(f) == toLowerCase(f.mimetype)

extOf(f) == toLowerCase(extname(f.originalname))

\* The branch lines 211-236 take: "text", "pdf" or "other".
acquisitionBranch(f) ==
    IF shouldTreatAsText(mimetypeOf(f), extOf(f)) THEN "text"
    ELSE IF includes(mimetypeOf(f), <<"p","d","f">>) THEN "pdf"
    ELSE "other"

\* `Uploaded invoice file: ${req.file.originalname}. Extract key invoice details.`
placeholderText(f) ==
    <<"U","p","l","o","a","d","e","d"," ","i","n","v","o","i","c","e"," ","f","i","l","e",":"," ">>
    \o f.originalname
    \o <<"."," ","E","x","t","r","a","c","t"," ","k","e","y"," ","i","n","v","o","i","c","e"," ","d","e","t","a","i","l","s",".">>

\* Number.prototype.toString / String.prototype.toString
RECURSIVE natToString(_)
natToString(n) ==
    IF n < 10 THEN <<DigitChar(n)>> ELSE natToString(n \div 10) \o <<DigitChar(n % 10)>>

toString(v) ==
    CASE v.t = "string" -> v.s
      [] v.t = "number" /\ v.k = "finite" ->
            (IF v.neg THEN <<"-">> ELSE <<>>) \o natToString(v.ip)
            \o (IF v.fr = <<>> THEN <<>> ELSE <<".">> \o v.fr)
      [] v.t = "number" /\ v.k = "NaN" -> <<"N","a","N">>
      [] v.t = "number" /\ v.k = "+Infinity" -> <<"I","n","f","i","n","i","t","y">>
      [] v.t = "number" /\ v.k = "-Infinity" -> <<"-","I","n","f","i","n","i","t","y">>

\* typeof v === "number" && !Number.isNaN(v)
isNumberNotNaN(v) == v.t = "number" /\ v.k # "NaN"

\* x?.trim() for x undefined or a string
optTrim(v) == IF v.t = "undefined" THEN Undefined ELSE Str(trim(v.s))

\* x?.toString().trim() for x undefined, a string or a number
optToStringTrim(v) == IF v.t = "undefined" THEN Undefined ELSE Str(trim(toString(v)))

\* typeof x === "string" && x.trim(): false (falsy) when x is no string
stringAndTrim(v) == IF v.t = "string" THEN Str(trim(v.s)) ELSE Undefined

\* x && x.toString().trim()
truthyAndToStringTrim(v) == IF Truthy(v) THEN Str(trim(toString(v))) ELSE v

\* if (simpleResult && typeof simpleResult === "object") { ... }   (282-290)
mergeSimple(merged, simple) ==
    [merged EXCEPT
        !.supplier       = JsOr(optTrim(simple.supplier), merged.supplier),
        !.invoice_number = JsOr(optToStringTrim(simple.invoice_number), merged.invoice_number),
        !.issue_date     = JsOr(simple.issue_date, merged.issue_date),
        !.due_date       = JsOr(simple.due_date, merged.due_date),
        !.amount         = IF isNumberNotNaN(simple.amount) THEN simple.amount ELSE merged.amount]

aiSupplier_noFallback(ai, merged) == stringAndTrim(ai.supplier)

\* (typeof aiResult.supplier === "string" && aiResult.supplier.trim()) || mergedInvoice.supplier
aiSupplier(ai, merged) == JsOr(stringAndTrim(ai.supplier), merged.supplier)

aiWeekLabel_fromMergedDueDate(ai, merged) ==
    Str(weekLabelFromDate(toString(JsOr(ai.due_date, merged.due_date))))

\* aiResult.due_date ? weekLabelFromDate(aiResult.due_date) : mergedInvoice.week_label
aiWeekLabel(ai, merged) ==
    IF Truthy(ai.due_date)
    THEN Str(weekLabelFromDate(toString(ai.due_date)))
    ELSE merged.week_label

\* if (aiResult && typeof aiResult === "object") { ... }   (292-308)
mergeAi(merged, ai) ==
    IF ai.isNull THEN merged
    ELSE [merged EXCEPT
            !.supplier       = aiSupplier(ai, merged),
            !.invoice_number = JsOr(truthyAndToStringTrim(ai.invoice_number), merged.invoice_number),
            !.issue_date     = JsOr(ai.issue_date, merged.issue_date),
            !.due_date       = JsOr(ai.due_date, merged.due_date),
            !.amount         = IF isNumberNotNaN(ai.amount) THEN ai.amount ELSE merged.amount,
            !.status         = JsOr(stringAndTrim(ai.status), merged.status),
            !.category       = JsOr(stringAndTrim(ai.category), merged.category),
            !.week_label     = aiWeekLabel(ai, merged)]

mergeOf_skipHeuristic(fallback, simple, ai) == mergeAi(fallback, ai)

\* const mergedInvoice = { ...fallbackInvoice }; then both merges   (280-308)
mergeOf(fallback, simple, ai) == mergeAi(mergeSimple(fallback, simple), ai)

\* db.js insertInvoice: the row stored and read back by findInvoiceById
rowOf(id, invoice) ==
    [id |-> id,
     invoice |-> [invoice EXCEPT !.archived = IF @.t \in {"undefined", "null"} THEN Num(0) ELSE @]]

\* res.status(400).json({ error: "No file uploaded" })
respNoFile == [status |-> 400, body |-> "No file uploaded", invoice |-> NoRow]

respInsertFailed_swallowed == [status |-> 200, body |-> "File uploaded", invoice |-> NoRow]

\* res.status(500).json({ error: "Upload failed to save invoice" })
respInsertFailed == [status |-> 500, body |-> "Upload failed to save invoice", invoice |-> NoRow]

\* res.json({ status: "ok", message: "File uploaded", file: {...}, invoice: inserted })
respOk(row) == [status |-> 200, body |-> "File uploaded", invoice |-> row]

\* The demo rows db.js inserts into an empty table at start-up.
SeedCount == 10


(***************************************************************************)
(* Inputs of the upload handler.                                           *)
(***************************************************************************)
Mimetypes ==
    { <<"t","e","x","t","/","p","l","a","i","n">>,
      <<"a","p","p","l","i","c","a","t","i","o","n","/","o","c","t","e","t","-","s","t","r","e","a","m">>,
      <<"a","p","p","l","i","c","a","t","i","o","n","/","p","d","f">>,
      <<"i","m","a","g","e","/","p","n","g">> }

OriginalNames ==
    { <<"i","n","v",".","C","S","V">>,        \* inv.CSV
      <<"s","c","a","n",".","b","i","n">> }   \* scan.bin

Files == {[present |-> TRUE, mimetype |-> mt, originalname |-> n] :
            mt \in Mimetypes, n \in OriginalNames}

Todays == {[y |-> 2025, m |-> 1, d |-> 10], [y |-> 2024, m |-> 2, d |-> 20]}

\* Contents of the uploaded file (and text pdf-parse returns): at most
\* MaxFileLines of these lines, joined by "\n".
MaxFileLines == 2

FileLines ==
    { \* Supplier: Acme
      <<"S","u","p","p","l","i","e","r",":"," ","A","c","m","e">>,
      \* Due Date: 12/25/2024
      <<"D","u","e"," ","D","a","t","e",":"," ","1","2","/","2","5","/","2","0","2","4">>,
      \* Total: $500
      <<"T","o","t","a","l",":"," ","$","5","0","0">> }

FileTexts == {join(ls, <<"\n">>) : ls \in SeqsUpTo(FileLines, MaxFileLines)}

\* What extractInvoiceFromText may resolve to: null, or an object holding any
\* of the seven fields.
AiSuppliers == {Undefined, Str(<<" ">>), Str(<<"A","c","m","e"," ","L","t","d">>)}

AiInvoiceNumbers == {Undefined, Num(7), Str(<<"A","-","1">>)}

AiIssueDates == {Undefined, Str(<<"2","0","2","5","-","0","1","-","0","5">>)}

AiDueDates == {Undefined, Str(<<>>), Str(<<"2","0","2","5","-","0","1","-","1","0">>)}

AiAmounts == {Undefined, Str(<<"1","2">>), NaN, PosInfinity, NegInfinity, Num(750), Num(-5)}

AiStatuses == {Undefined, Str(<<" ","P","a","i","d"," ">>)}

AiCategories == {Undefined, Str(<<"R","e","n","t">>)}

AiObjects ==
    [isNull : {FALSE}, supplier : AiSuppliers, invoice_number : AiInvoiceNumbers,
     issue_date : AiIssueDates, due_date : AiDueDates, amount : AiAmounts,
     status : AiStatuses, category : AiCategories]

AiResults == {AiNull} \cup AiObjects

(***************************************************************************)
(* The upload handler as a state machine: one request.                     *)
(***************************************************************************)
ExIdle == exText = <<>> /\ exDone = FALSE /\ exResult = EmptyResult

PipelineIdle ==
    /\ pc = "idle"
    /\ today = NoDate
    /\ file = NoFile
    /\ fallbackInvoice = NoInvoice
    /\ rawText = <<>>
    /\ textSource = "none"
    /\ simpleResult = EmptyResult
    /\ aiResult = AiNull
    /\ aiThrew = FALSE
    /\ mergedInvoice = NoInvoice
    /\ insertArg = [called |-> FALSE, invoice |-> NoInvoice]
    /\ insertOutcome = "none"
    /\ lastID = SeedCount
    /\ response = NoResponse

Init == PipelineIdle /\ ExIdle

\* if (!req.file) return res.status(400).json({ error: "No file uploaded" })
ReceiveNoFile ==
    /\ pc = "idle"
    /\ response' = respNoFile
    /\ pc' = "done"
    /\ UNCHANGED <<today, file, fallbackInvoice, rawText, textSource, simpleResult,
                   aiResult, aiThrew, mergedInvoice, insertArg, insertOutcome, lastID>>
    /\ UNCHANGED extractVars

\* Lines 176-210: the request carries a file; today is read and the fallback
\* invoice is built.
ReceiveFile ==
    /\ pc = "idle"
    /\ \E f \in Files, t \in Todays :
        /\ file' = f
        /\ today' = t
        /\ fallbackInvoice' = fallbackInvoiceOf(f, t)
    /\ pc' = "acquire"
    /\ UNCHANGED <<rawText, textSource, simpleResult, aiResult, aiThrew, mergedInvoice,
                   insertArg, insertOutcome, lastID, response>>
    /\ UNCHANGED extractVars

\* Lines 238-270 and the call of line 274, once rawText is known.
Acquired(text, source) ==
    /\ rawText' = text
    /\ textSource' = source
    /\ simpleResult' = simpleExtract(text)
    /\ pc' = "ai"
    /\ UNCHANGED <<today, file, fallbackInvoice, aiResult, aiThrew, mergedInvoice,
                   insertArg, insertOutcome, lastID, response>>
    /\ UNCHANGED extractVars

\* Lines 211-214: fs.promises.readFile(path, "utf8") resolves.
ReadFileOk ==
    /\ pc = "acquire"
    /\ acquisitionBranch(file) = "text"
    /\ \E text \in FileTexts : Acquired(text, "utf8 read")

\* Lines 215-218: the read rejects.
ReadFileFails ==
    /\ pc = "acquire"
    /\ acquisitionBranch(file) = "text"
    /\ Acquired(placeholderText(file), "utf8 read failed")

\* Lines 219-227: pdf-parse resolves; rawText = pdfData.text || "".
PdfParseOk ==
    /\ pc = "acquire"
    /\ acquisitionBranch(file) = "pdf"
    /\ \E text \in FileTexts : Acquired(text, "pdf-parse")

\* Lines 228-232: pdfParse is no function, the read rejects or the parse throws.
PdfParseFails ==
    /\ pc = "acquire"
    /\ acquisitionBranch(file) = "pdf"
    /\ Acquired(placeholderText(file), "pdf-parse failed")

\* Lines 233-236: neither text nor PDF.
UsePlaceholder ==
    /\ pc = "acquire"
    /\ acquisitionBranch(file) = "other"
    /\ Acquired(placeholderText(file), "placeholder")

\* Lines 280-311, once the AI call has settled with `ai`.
MergeAndInsert(ai, threw) ==
    /\ aiResult' = ai
    /\ aiThrew' = threw
    /\ mergedInvoice' = mergeOf(fallbackInvoice, simpleResult, ai)
    /\ insertArg' = [called |-> TRUE, invoice |-> mergedInvoice']
    /\ pc' = "insert"
    /\ UNCHANGED <<today, file, fallbackInvoice, rawText, textSource, simpleResult,
                   insertOutcome, lastID, response>>
    /\ UNCHANGED extractVars

\* Line 274: extractInvoiceFromText resolves.
AiReturns ==
    /\ pc = "ai"
    /\ \E ai \in AiResults : MergeAndInsert(ai, FALSE)

\* Lines 276-278: extractInvoiceFromText rejects; aiResult stays null.
AiThrows ==
    /\ pc = "ai"
    /\ MergeAndInsert(AiNull, TRUE)

\* Lines 311-322: insertInvoice resolves with the stored row.
InsertOk ==
    /\ pc = "insert"
    /\ lastID' = lastID + 1
    /\ insertOutcome' = "ok"
    /\ response' = respOk(rowOf(lastID + 1, insertArg.invoice))
    /\ pc' = "done"
    /\ UNCHANGED <<today, file, fallbackInvoice, rawText, textSource, simpleResult,
                   aiResult, aiThrew, mergedInvoice, insertArg>>
    /\ UNCHANGED extractVars

\* Lines 323-326: insertInvoice rejects.
InsertFails ==
    /\ pc = "insert"
    /\ insertOutcome' = "failed"
    /\ response' = respInsertFailed
    /\ pc' = "done"
    /\ UNCHANGED <<today, file, fallbackInvoice, rawText, textSource, simpleResult,
                   aiResult, aiThrew, mergedInvoice, insertArg, lastID>>
    /\ UNCHANGED extractVars

Next ==
    \/ ReceiveNoFile
    \/ ReceiveFile
    \/ ReadFileOk
    \/ ReadFileFails
    \/ PdfParseOk
    \/ PdfParseFails
    \/ UsePlaceholder
    \/ AiReturns
    \/ AiThrows
    \/ InsertOk
    \/ InsertFails

Spec == Init /\ [][Next]_vars

(***************************************************************************)
(* The heuristic extractor on its own.                                     *)
(***************************************************************************)
ExInit == PipelineIdle /\ exText \in ExTexts /\ exDone = FALSE /\ exResult = EmptyResult

ExtractText ==
    /\ ~exDone
    /\ exResult' = simpleExtract(exText)
    /\ exDone' = TRUE
    /\ UNCHANGED exText
    /\ UNCHANGED pipelineVars

ExNext == ExtractText

SpecExtract == ExInit /\ [][ExNext]_vars


(***************************************************************************)
(* Properties.                                                             *)
(***************************************************************************)
\* "Valid value" of the merge policy: a text field is valid when it is not
\* empty after trimming, the amount when it is a finite number.
ValidText(v) == v.t \in {"string", "number"} /\ trim(toString(v)) # <<>>

TextValue(v) == Str(trim(toString(v)))

ValidAmount(v) == v.t = "number" /\ v.k = "finite"

TextFields == {"supplier", "invoice_number", "issue_date", "due_date"}

AiGave(field) == ~aiResult.isNull /\ ValidText(aiResult[field])

Handed == insertArg.called

\* C1: for supplier, invoice_number, issue_date, due_date and amount the
\* merged value is the AI result's value if the AI result has a valid one,
\* otherwise the heuristic result's value if it has a valid one, otherwise
\* the fallback invoice's value.
C1_MergePrecedence ==
    Handed =>
        /\ \A f \in TextFields :
              mergedInvoice[f] =
                 IF AiGave(f) THEN TextValue(aiResult[f])
                 ELSE IF ValidText(simpleResult[f]) THEN TextValue(simpleResult[f])
                 ELSE fallbackInvoice[f]
        /\ mergedInvoice.amount =
              IF ~aiResult.isNull /\ ValidAmount(aiResult.amount) THEN aiResult.amount
              ELSE IF ValidAmount(simpleResult.amount) THEN simpleResult.amount
              ELSE fallbackInvoice.amount

WeekOf(date) == Str(<<"W","e","e","k"," ","o","f"," ">> \o date)

AiSuppliedDueDate == ~aiResult.isNull /\ Truthy(aiResult.due_date)

\* C2: week_label is "Week of " followed by the final merged due_date when
\* the AI result supplied a due_date; in every other case (also when the
\* heuristic result overrode due_date) it is the fallback invoice's
\* week_label, "Week of " followed by today + 14 days.
C2_WeekLabel ==
    Handed =>
        /\ AiSuppliedDueDate =>
              insertArg.invoice.week_label = WeekOf(insertArg.invoice.due_date.s)
        /\ ~AiSuppliedDueDate =>
              /\ insertArg.invoice.week_label = fallbackInvoice.week_label
              /\ insertArg.invoice.week_label = WeekOf(toISO(AddDays(today, 14)))

\* The heuristic result overrode due_date and the AI result gave none: the
\* label no longer names the invoice's due date.
C2_Witness ==
    /\ Handed
    /\ ~AiSuppliedDueDate
    /\ ValidText(simpleResult.due_date)
    /\ insertArg.invoice.due_date = simpleResult.due_date
    /\ insertArg.invoice.due_date # fallbackInvoice.due_date
    /\ insertArg.invoice.week_label # WeekOf(insertArg.invoice.due_date.s)

InvoiceFields ==
    {"supplier", "invoice_number", "issue_date", "due_date", "amount", "status",
     "category", "source", "week_label", "archived"}

\* A field holding some value: not undefined, not null, not the empty string.
IsSet(v) == v.t \in {"string", "number"} /\ (v.t = "string" => v.s # <<>>)

\* C3: every upload that carries a file reaches the storage hand-off, with a
\* merged invoice in which every one of the ten fields is set.
C3_AllFieldsSet ==
    /\ (file.present /\ pc \in {"insert", "done"}) => Handed
    /\ Handed => \A f \in InvoiceFields : IsSet(insertArg.invoice[f])

\* Nothing was extracted (an empty file, no AI result): the record handed to
\* storage is the fallback invoice.
C3_Witness ==
    /\ pc = "done"
    /\ Handed
    /\ textSource = "utf8 read"
    /\ rawText = <<>>
    /\ aiResult.isNull
    /\ insertArg.invoice = fallbackInvoice

\* The documented rule of the first branch: plain text, or a generic binary
\* stream with one of the text-like extensions.
DocumentedTextRule(mimetype, ext) ==
    \/ startsWith(mimetype, <<"t","e","x","t","/">>)
    \/ /\ mimetype = <<"a","p","p","l","i","c","a","t","i","o","n","/","o","c","t","e","t","-","s","t","r","e","a","m">>
       /\ ext \in {<<".","t","x","t">>, <<".","c","s","v">>, <<".","j","s","o","n">>}

\* C4: a UTF-8 read is attempted exactly when the media type is plain text, or
\* is application/octet-stream and the extension is .txt, .csv or .json;
\* otherwise a PDF extraction is attempted when the media type indicates PDF;
\* otherwise the placeholder is used and nothing is read.
C4_TextAcquisitionBranch ==
    textSource # "none" =>
        LET asText == DocumentedTextRule(mimetypeOf(file), extOf(file))
            asPdf  == ~asText /\ includes(mimetypeOf(file), <<"p","d","f">>)
        IN  /\ textSource \in {"utf8 read", "utf8 read failed"} <=> asText
            /\ textSource \in {"pdf-parse", "pdf-parse failed"} <=> asPdf
            /\ textSource = "placeholder" <=> (~asText /\ ~asPdf)

\* The fallback invoice overridden by the heuristic result's valid fields.
HeuristicOverFallback ==
    [f \in InvoiceFields |->
        IF f \in TextFields
        THEN (IF ValidText(simpleResult[f]) THEN TextValue(simpleResult[f])
              ELSE fallbackInvoice[f])
        ELSE IF f = "amount"
        THEN (IF ValidAmount(simpleResult.amount) THEN simpleResult.amount
              ELSE fallbackInvoice.amount)
        ELSE fallbackInvoice[f]]

C6_OnlyStorageFails ==
    pc = "done" => (response.status # 200 <=> insertOutcome = "failed")

\* C6 as amended: for a request that carries a file the response is
\* non-success if and only if insertInvoice failed, and a success carries the
\* stored invoice; a request without a file is answered 400 and insertInvoice
\* is not called.
C6_OnlyStorageFailsWithFile ==
    pc = "done" =>
        /\ file.present =>
              /\ response.status # 200 <=> insertOutcome = "failed"
              /\ response.status = 200 =>
                    /\ response.invoice.id = lastID
                    /\ response.invoice.invoice = insertArg.invoice
        /\ ~file.present =>
              /\ response.status = 400
              /\ ~Handed
              /\ insertOutcome = "none"

\* The PDF could not be parsed and the AI call failed, and the upload still
\* succeeded.
C6_Witness ==
    /\ pc = "done"
    /\ file.present
    /\ textSource = "pdf-parse failed"
    /\ aiThrew
    /\ insertOutcome = "ok"
    /\ response.status = 200

\* C7: an AI amount that is no finite number is treated as absent: the merged
\* amount is the heuristic amount if there is a valid one, else the fallback
\* amount 0, and is never a non-finite value.
C7_NonFiniteAiAmountIgnored ==
    (Handed /\ ~aiResult.isNull /\ ~ValidAmount(aiResult.amount)) =>
        /\ insertArg.invoice.amount =
              IF ValidAmount(simpleResult.amount) THEN simpleResult.amount ELSE Num(0)
        /\ ValidAmount(insertArg.invoice.amount)

\* C10: the amount handed to storage is a non-negative number.
C10_AmountNonNegative ==
    Handed =>
        /\ insertArg.invoice.amount.t = "number"
        /\ insertArg.invoice.amount.k \in {"finite", "+Infinity"}
        /\ ~insertArg.invoice.amount.neg

exLines == splitLines(exText)

HasSeparator(line) == \E i \in 1..Len(line) : line[i] \in Separators

\* The substring after the first ":" or "-", trimmed.
AfterFirstSeparator(line) ==
    LET first == CHOOSE i \in 1..Len(line) :
                    line[i] \in Separators /\ \A j \in 1..(i - 1) : line[j] \notin Separators
    IN  trim(SubSeq(line, first + 1, Len(line)))

\* C8: for a matching line that contains a ":" or "-", the raw value is the
\* substring of the line after the first such separator, trimmed, every later
\* ":" and "-" kept unchanged.
C8_ValueAfterFirstSeparator ==
    (exDone /\ exText # <<>>) =>
        \A label \in {L_supplier, L_invoice_number} :
            LET i == findLine(exLines, label)
            IN  (i # 0 /\ HasSeparator(exLines[i])) =>
                    findValue(exLines, label) = Str(AfterFirstSeparator(exLines[i]))

InvoiceNumberSynonyms == <<L_invoice_number, L_invoice_no, L_inv>>

AmountSynonyms == <<L_amount, L_total, L_balance>>

\* The first synonym, in the listed order, that some line contains; 0 if none.
FirstMatched(syn) ==
    LET M == {k \in 1..Len(syn) : findLine(exLines, syn[k]) # 0}
    IN  IF M = {} THEN 0 ELSE CHOOSE k \in M : \A j \in M : k <= j

\* The first synonym, in the listed order, whose first matching line yields
\* a non-empty value; 0 if none.
FirstYielding(syn) ==
    LET Y == {k \in 1..Len(syn) : Truthy(findValue(exLines, syn[k]))}
    IN  IF Y = {} THEN 0 ELSE CHOOSE k \in Y : \A j \in Y : k <= j

\* C9: the field is taken from the first line containing the highest-priority
\* synonym that any line contains; no line found through a lower-priority
\* synonym is used, even when that line has no separator or an empty value
\* (the field is then absent).
C9_HighestPrioritySynonymOnly ==
    (exDone /\ exText # <<>>) =>
        /\ LET k == FirstMatched(InvoiceNumberSynonyms)
           IN  k # 0 =>
                 LET v == findValue(exLines, InvoiceNumberSynonyms[k])
                 IN  IF Truthy(v) THEN exResult.invoice_number = v
                     ELSE ~Truthy(exResult.invoice_number)
        /\ LET k == FirstMatched(AmountSynonyms)
           IN  k # 0 =>
                 exResult.amount = parseAmount(findValue(exLines, AmountSynonyms[k]))

\* C9 as amended: the field is taken from the first synonym, in the listed
\* order, whose first matching line yields a non-empty value; a synonym whose
\* first matching line has no separator or an empty value is passed over, and
\* the field has no value only when no synonym yields one (the amount also
\* when the value taken holds no number: later synonyms are not tried then).
C9_FirstYieldingSynonym ==
    (exDone /\ exText # <<>>) =>
        /\ LET k == FirstYielding(InvoiceNumberSynonyms)
           IN  IF k = 0 THEN ~Truthy(exResult.invoice_number)
               ELSE exResult.invoice_number = findValue(exLines, InvoiceNumberSynonyms[k])
        /\ LET k == FirstYielding(AmountSynonyms)
           IN  IF k = 0 THEN exResult.amount = Undefined
               ELSE exResult.amount = parseAmount(findValue(exLines, AmountSynonyms[k]))

\* A line contains "invoice number" but yields nothing, and the invoice
\* number comes from a line found through a lower-priority synonym.
C9_Witness ==
    /\ exDone
    /\ findLine(exLines, L_invoice_number) # 0
    /\ ~Truthy(findValue(exLines, L_invoice_number))
    /\ Truthy(exResult.invoice_number)
    /\ FirstYielding(InvoiceNumberSynonyms) > FirstMatched(InvoiceNumberSynonyms)

=============================================================================
